---- MODULE Spec2Model ----
(***************************************************************************)
(* Verification model of dacli: the AsciiDoc section parsers, the          *)
(* content-manipulation endpoints and the structure validation service.    *)
(* Text is modelled as sequences of one-character strings, so that the     *)
(* regular expressions, the slugging and the line splicing are computed as *)
(* the code computes them.                                                 *)
(***************************************************************************)
EXTENDS Integers, Sequences, FiniteSets, TLC

VARIABLES
    \* --- parser run (AsciidocParser.parse_file / parse_document) ---
    lines,            \* the list of lines being parsed
    parser,           \* which parser runs on them
    line_num,         \* position of the for-loop (next line to read)
    attributes,       \* result of _parse_attributes: sequence of <<name, value>>
    section_heap,     \* every Section object created so far, in creation order
    sections,         \* the list of top-level sections (references into section_heap)
    section_stack,    \* the stack of open sections (indices into sections)
    document_title,   \* the level-0 title seen last
    \* --- content manipulation (dacli/api) ---
    disk,             \* the text of the documentation file on disk
    _index,           \* dependencies._index: None or the StructureIndex set by set_index
    calls,            \* number of update_section / insert_content requests served
    last,             \* the last request, its response and the file it found
    \* --- conditional pre-pass of the AsciiDoc parser ---
    condition_stack,  \* one boolean per open ifdef/ifndef region, innermost last
    filtered,         \* the lines handed on to extraction: [line, text]
    \* --- include expansion, index build and validation ---
    files,            \* the documentation files of docs_root: name -> list of lines
    max_include_depth,\* the parser's configured include depth
    file_path,        \* the argument of parse_document, <<>> before the call
    all_lines,        \* the merged line stream of the last parse: [file, line, text]
    expansions,       \* the include expansions performed: [file, line, target, depth]
    report            \* the result of validate_structure, <<>> before

parseVars ==
    <<lines, line_num, attributes, section_heap, sections, section_stack,
      document_title>>

apiVars == <<disk, _index, calls, last>>

condVars == <<condition_stack, filtered>>

incVars == <<files, max_include_depth, file_path, all_lines, expansions, report>>

vars == <<parser, parseVars, apiVars, condVars, incVars>>

----------------------------------------------------------------------------
(* Bounds of the model *)

MaxLines == 4

MaxCalls == 1

MaxCondLines == 6

MaxFileLines == 1

----------------------------------------------------------------------------
(* Characters and strings *)

NL == "\n"

None == 0

Min(S) == CHOOSE x \in S : \A y \in S : x <= y

Max(S) == CHOOSE x \in S : \A y \in S : x >= y

\* str.isspace() on the characters of the model's alphabet
IsSpace(c) == c \in {" ", NL}

\* the ASCII letters and digits of the model's alphabet
AsciiLower == {"a", "b", "c", "e", "i", "k", "l", "n", "p", "r", "s", "t", "u", "v", "x"}

AsciiUpper == {"A", "B", "C", "K", "T", "U"}

Digits == {"1", "2"}

\* the characters str.lower() changes
UpperCase == AsciiUpper \cup {"Ü"}

\* characters matched by [a-zA-Z0-9_-]
IsAttrNameChar(c) == c \in AsciiLower \cup AsciiUpper \cup Digits \cup {"_", "-"}

\* characters matched by \w (Python 3 str patterns: Unicode letters, digits, underscore)
IsWordChar(c) == c \in AsciiLower \cup UpperCase \cup Digits \cup {"_", "ü"}

\* str.lower() on one character
Lower(c) ==
    CASE c = "A" -> "a"
      [] c = "B" -> "b"
      [] c = "C" -> "c"
      [] c = "K" -> "k"
      [] c = "T" -> "t"
      [] c = "U" -> "u"
      [] c = "Ü" -> "ü"
      [] OTHER -> c

\* "c" * n
Repeat(c, n) == [i \in 1..n |-> c]

\* s[from:]  (1-based first index kept)
Drop(s, n) == SubSeq(s, n + 1, Len(s))

\* s[:n]
Take(s, n) == SubSeq(s, 1, IF n < Len(s) THEN n ELSE Len(s))

\* number of leading characters of s equal to c
LeadingEquals(s, c) ==
    LET stop == {i \in 1..Len(s) : s[i] # c}
    IN IF stop = {} THEN Len(s) ELSE Min(stop) - 1

\* number of leading whitespace characters of s
LeadingSpaces(s) ==
    LET stop == {i \in 1..Len(s) : ~IsSpace(s[i])}
    IN IF stop = {} THEN Len(s) ELSE Min(stop) - 1

\* str.lstrip()
LStrip(s) == Drop(s, LeadingSpaces(s))

\* str.rstrip()
RStrip(s) ==
    LET keep == {i \in 1..Len(s) : ~IsSpace(s[i])}
    IN IF keep = {} THEN <<>> ELSE SubSeq(s, 1, Max(keep))

\* str.strip()
Strip(s) == RStrip(LStrip(s))

\* str.startswith(prefix)
StartsWith(s, prefix) == Len(s) >= Len(prefix) /\ SubSeq(s, 1, Len(prefix)) = prefix

\* str.endswith(suffix)
EndsWith(s, suffix) ==
    Len(s) >= Len(suffix) /\ SubSeq(s, Len(s) - Len(suffix) + 1, Len(s)) = suffix

\* str.replace(old, new): every non-overlapping occurrence, left to right
RECURSIVE Replace(_, _, _)
Replace(s, old, new) ==
    IF s = <<>> \/ old = <<>> THEN s
    ELSE IF StartsWith(s, old) THEN new \o Replace(Drop(s, Len(old)), old, new)
    ELSE <<s[1]>> \o Replace(Tail(s), old, new)

\* re.sub(r"[^\w\s-]", "", s)
RECURSIVE RemoveSpecial(_)
RemoveSpecial(s) ==
    IF s = <<>> THEN <<>>
    ELSE IF IsWordChar(s[1]) \/ IsSpace(s[1]) \/ s[1] = "-"
         THEN <<s[1]>> \o RemoveSpecial(Tail(s))
         ELSE RemoveSpecial(Tail(s))

\* re.sub(r"\s+", "-", s)
RECURSIVE SpacesToDash(_)
SpacesToDash(s) ==
    IF s = <<>> THEN <<>>
    ELSE IF IsSpace(s[1]) THEN <<"-">> \o SpacesToDash(LStrip(s))
    ELSE <<s[1]>> \o SpacesToDash(Tail(s))

\* _title_to_slug
_title_to_slug(title) ==
    LET slug1 == [i \in 1..Len(title) |-> Lower(title[i])]
        slug2 == RemoveSpecial(slug1)
    IN SpacesToDash(slug2)

----------------------------------------------------------------------------
(* Regular expressions of the AsciiDoc parsers *)

\* t matches (?:\s+=*)?$ : empty, or whitespace followed by '=' only
TitleRestOK(t) ==
    \/ t = <<>>
    \/ /\ LeadingSpaces(t) >= 1
       /\ \A i \in (LeadingSpaces(t) + 1)..Len(t) : t[i] = "="

\* SECTION_PATTERN = ^(={1,6})\s+(.+?)(?:\s+=*)?$ ; group 1 as a count, group 2 as text
SECTION_PATTERN(line) ==
    LET n == LeadingEquals(line, "=")
        after == Drop(line, n)
        w == LeadingSpaces(after)
        r == Drop(after, w)
        k == Min({j \in 1..Len(r) : TitleRestOK(Drop(r, j))})
    IN IF n < 1 \/ n > 6 \/ w < 1 THEN [matched |-> FALSE, equals |-> 0, title |-> <<>>]
       ELSE IF r # <<>> THEN [matched |-> TRUE, equals |-> n, title |-> Take(r, k)]
       ELSE IF w >= 2 THEN [matched |-> TRUE, equals |-> n, title |-> <<after[w]>>]
       ELSE [matched |-> FALSE, equals |-> 0, title |-> <<>>]

\* ATTRIBUTE_PATTERN = ^:([a-zA-Z0-9_-]+):\s*(.*)$
ATTRIBUTE_PATTERN(line) ==
    LET body == Drop(line, 1)
        stop == {i \in 1..Len(body) : ~IsAttrNameChar(body[i])}
        n == IF stop = {} THEN Len(body) ELSE Min(stop) - 1
        rest == Drop(body, n + 1)
    IN IF Len(line) >= 1 /\ line[1] = ":" /\ n >= 1 /\ n < Len(body) /\ body[n + 1] = ":"
       THEN [matched |-> TRUE, name |-> Take(body, n), value |-> LStrip(rest)]
       ELSE [matched |-> FALSE, name |-> <<>>, value |-> <<>>]

\* SECTION_TITLE_REGEX = ^(={2,5})\s+(.*) of the legacy parser (match, not fullmatch;
\* '.' stops at the line's newline)
SECTION_TITLE_REGEX(line) ==
    LET n == LeadingEquals(line, "=")
        after == Drop(line, n)
        w == LeadingSpaces(after)
        r == Drop(after, w)
        nl == {i \in 1..Len(r) : r[i] = NL}
        g2 == IF nl = {} THEN r ELSE Take(r, Min(nl) - 1)
    IN IF n >= 2 /\ n <= 5 /\ w >= 1
       THEN [matched |-> TRUE, equals |-> n, title |-> g2]
       ELSE [matched |-> FALSE, equals |-> 0, title |-> <<>>]

----------------------------------------------------------------------------
(* AsciidocParser (mcp_server/asciidoc_parser.py) *)

\* attributes[name] = value on an insertion-ordered dict
DictSet(d, name, value) ==
    IF \E i \in 1..Len(d) : d[i][1] = name
    THEN [i \in 1..Len(d) |-> IF d[i][1] = name THEN <<name, value>> ELSE d[i]]
    ELSE Append(d, <<name, value>>)

\* name in attributes
DictHas(d, name) == \E i \in 1..Len(d) : d[i][1] = name

\* mutant: the loop never breaks, every attribute line of the file is collected
RECURSIVE ParseAttributesFrom_all(_, _, _)
ParseAttributesFrom_all(ls, i, d) ==
    IF i > Len(ls) THEN d
    ELSE LET match == ATTRIBUTE_PATTERN(ls[i])
         IN ParseAttributesFrom_all(ls, i + 1,
                IF match.matched THEN DictSet(d, match.name, Strip(match.value)) ELSE d)

\* AsciidocParser._parse_attributes: the for-loop from line i on
RECURSIVE ParseAttributesFrom(_, _, _)
ParseAttributesFrom(ls, i, d) ==
    IF i > Len(ls) THEN d
    ELSE LET line == ls[i]
             match == ATTRIBUTE_PATTERN(line)
         IN IF match.matched
            THEN ParseAttributesFrom(ls, i + 1, DictSet(d, match.name, Strip(match.value)))
            ELSE IF Strip(line) # <<>> /\ ~StartsWith(line, <<":">>)
                    /\ SECTION_PATTERN(line).matched
            THEN d
            ELSE ParseAttributesFrom(ls, i + 1, d)

_parse_attributes(ls) == ParseAttributesFrom(ls, 1, <<>>)

\* AsciidocParser._substitute_attributes: one replace per attribute, in dict order
RECURSIVE SubstituteFrom(_, _, _)
SubstituteFrom(text, d, i) ==
    IF i > Len(d) THEN text
    ELSE SubstituteFrom(Replace(text, <<"{">> \o d[i][1] \o <<"}">>, d[i][2]), d, i + 1)

_substitute_attributes(text, d) == SubstituteFrom(text, d, 1)

\* mutant: the pop loop keeps a section of the same level on the stack
PopPredicate_strict(topLevel, level) == topLevel > level

\* the condition of the while-loop that pops the stack: section_stack[-1].level >= level
PopPredicate(topLevel, level) == topLevel >= level

RECURSIVE PopStack(_, _, _)
PopStack(heap, stack, level) ==
    IF stack # <<>> /\ PopPredicate(heap[stack[Len(stack)]].level, level)
    THEN PopStack(heap, SubSeq(stack, 1, Len(stack) - 1), level)
    ELSE stack

\* AsciidocParser._parse_sections: the body of the for-loop for line number num.
\* st = [heap, sections, section_stack, document_title]; heap holds the Section
\* objects in creation order, sections and children hold references (heap indices)
ParseSectionsStep(st, ls, num, d, file) ==
    LET line == ls[num]
        match == SECTION_PATTERN(line)
        raw_title == Strip(match.title)
        title == _substitute_attributes(raw_title, d)
        level == match.equals - 1
        idx == Len(st.heap) + 1
        stack == PopStack(st.heap, st.section_stack, level)
        section(path) ==
            [title |-> title, level |-> level, path |-> path, file |-> file,
             line |-> num, end_line |-> None, children |-> <<>>]
    IN IF ~match.matched THEN st
       ELSE IF level = 0
       THEN [heap |-> Append(st.heap, section(_title_to_slug(title))),
             sections |-> Append(st.sections, idx),
             section_stack |-> <<idx>>,
             document_title |-> title]
       ELSE IF stack # <<>>
       THEN LET parent == stack[Len(stack)]
            IN [heap |-> Append([st.heap EXCEPT ![parent].children = Append(@, idx)],
                    section(st.heap[parent].path \o <<".">> \o _title_to_slug(title))),
                sections |-> st.sections,
                section_stack |-> Append(stack, idx),
                document_title |-> st.document_title]
       ELSE [heap |-> Append(st.heap, section(_title_to_slug(title))),
             sections |-> Append(st.sections, idx),
             section_stack |-> Append(stack, idx),
             document_title |-> st.document_title]

EmptyParse ==
    [heap |-> <<>>, sections |-> <<>>, section_stack |-> <<>>, document_title |-> <<>>]

RECURSIVE ParseSectionsFrom(_, _, _, _, _)
ParseSectionsFrom(st, ls, num, d, file) ==
    IF num > Len(ls) THEN st
    ELSE ParseSectionsFrom(ParseSectionsStep(st, ls, num, d, file), ls, num + 1, d, file)

\* AsciidocParser._parse_sections
_parse_sections(ls, file, d) == ParseSectionsFrom(EmptyParse, ls, 1, d, file)

----------------------------------------------------------------------------
(* parse_document (mcp_server/components/parser.py): the section loop *)

\* the body of "for line in all_lines"; lines keep their newline
ParseDocumentStep(st, ls, num) ==
    LET line == ls[num]
        match == SECTION_TITLE_REGEX(line)
        level == match.equals
        title == Strip(match.title)
        idx == Len(st.heap) + 1
        stack == PopStack(st.heap, st.section_stack, level)
        new_section ==
            [title |-> title, level |-> level, content |-> <<>>, children |-> <<>>]
    IN IF match.matched
       THEN IF stack = <<>>
            THEN [heap |-> Append(st.heap, new_section),
                  sections |-> Append(st.sections, idx),
                  section_stack |-> Append(stack, idx),
                  document_title |-> st.document_title]
            ELSE [heap |-> Append([st.heap EXCEPT ![stack[Len(stack)]].children =
                                        Append(@, idx)], new_section),
                  sections |-> st.sections,
                  section_stack |-> Append(stack, idx),
                  document_title |-> st.document_title]
       ELSE IF st.section_stack # <<>>
       THEN LET top == st.section_stack[Len(st.section_stack)]
            IN [st EXCEPT !.heap[top].content = Append(@, line)]
       ELSE st

RECURSIVE ParseDocumentFrom(_, _, _)
ParseDocumentFrom(st, ls, num) ==
    IF num > Len(ls) THEN st
    ELSE ParseDocumentFrom(ParseDocumentStep(st, ls, num), ls, num + 1)

----------------------------------------------------------------------------
(* Text files and the FileSystemHandler collaborator *)

\* str.splitlines(keepends=True)
RECURSIVE SplitLinesKeep(_)
SplitLinesKeep(text) ==
    LET nl == {i \in 1..Len(text) : text[i] = NL}
    IN IF text = <<>> THEN <<>>
       ELSE IF nl = {} THEN <<text>>
       ELSE <<Take(text, Min(nl))>> \o SplitLinesKeep(Drop(text, Min(nl)))

\* str.splitlines()
SplitLines(text) ==
    LET kept == SplitLinesKeep(text)
    IN [i \in 1..Len(kept) |->
           IF EndsWith(kept[i], <<NL>>) THEN Take(kept[i], Len(kept[i]) - 1) ELSE kept[i]]

\* "".join(list)
RECURSIVE Join(_)
Join(ls) == IF ls = <<>> THEN <<>> ELSE Head(ls) \o Join(Tail(ls))

\* a Python slice bound n on a list of length len, as a count of leading elements
SliceBound(n, len) ==
    IF n < 0 THEN (IF len + n < 0 THEN 0 ELSE len + n)
    ELSE IF n > len THEN len ELSE n

\* list[:n]
SliceTo(ls, n) == SubSeq(ls, 1, SliceBound(n, Len(ls)))

\* list[n:]
SliceFrom(ls, n) == SubSeq(ls, SliceBound(n, Len(ls)) + 1, Len(ls))

\* FileSystemHandler.update_section: replace the 1-based inclusive line range
\* start_line..end_line of the file by new_content
FileUpdateSection(text, start_line, end_line, new_content) ==
    LET ls == SplitLinesKeep(text)
    IN Join(SliceTo(ls, start_line - 1) \o <<new_content>> \o SliceFrom(ls, end_line))

----------------------------------------------------------------------------
(* StructureIndex and the parser that feeds it *)

\* mutant: a section ends two lines in front of the next heading
PopulateEndLines_short(heap, total) ==
    [i \in 1..Len(heap) |->
        [heap[i] EXCEPT !.end_line =
            IF i < Len(heap) THEN heap[i + 1].line - 2 ELSE total]]

\* the parser fills SourceLocation.end_line: the line before the next heading,
\* the last line of the file for the last section
PopulateEndLines(heap, total) ==
    [i \in 1..Len(heap) |->
        [heap[i] EXCEPT !.end_line =
            IF i < Len(heap) THEN heap[i + 1].line - 1 ELSE total]]

\* the Markdown heading pattern ^(#{1,6})\s+(.+): equals counts the '#' characters
MARKDOWN_HEADING(line) ==
    LET n == LeadingEquals(line, "#")
        after == Drop(line, n)
        w == LeadingSpaces(after)
        r == Drop(after, w)
    IN IF n < 1 \/ n > 6 \/ w < 1 THEN [matched |-> FALSE, equals |-> 0, title |-> <<>>]
       ELSE IF r # <<>> THEN [matched |-> TRUE, equals |-> n, title |-> r]
       ELSE IF w >= 2 THEN [matched |-> TRUE, equals |-> n, title |-> <<after[w]>>]
       ELSE [matched |-> FALSE, equals |-> 0, title |-> <<>>]

\* MarkdownStructureParser: the nesting algorithm for line number num, of the
\* same shape as AsciidocParser._parse_sections, on Markdown headings
MarkdownSectionsStep(st, ls, num, file) ==
    LET match == MARKDOWN_HEADING(ls[num])
        title == Strip(match.title)
        level == match.equals - 1
        idx == Len(st.heap) + 1
        stack == PopStack(st.heap, st.section_stack, level)
        section(path) ==
            [title |-> title, level |-> level, path |-> path, file |-> file,
             line |-> num, end_line |-> None, children |-> <<>>]
    IN IF ~match.matched THEN st
       ELSE IF stack = <<>>
       THEN [heap |-> Append(st.heap, section(_title_to_slug(title))),
             sections |-> Append(st.sections, idx),
             section_stack |-> <<idx>>,
             document_title |-> IF level = 0 THEN title ELSE st.document_title]
       ELSE LET parent == stack[Len(stack)]
            IN [heap |-> Append([st.heap EXCEPT ![parent].children = Append(@, idx)],
                    section(st.heap[parent].path \o <<".">> \o _title_to_slug(title))),
                sections |-> st.sections,
                section_stack |-> Append(stack, idx),
                document_title |-> st.document_title]

RECURSIVE MarkdownSectionsFrom(_, _, _, _)
MarkdownSectionsFrom(st, ls, num, file) ==
    IF num > Len(ls) THEN st
    ELSE MarkdownSectionsFrom(MarkdownSectionsStep(st, ls, num, file), ls, num + 1, file)

\* AsciidocParser.parse_file; AsciidocStructureParser.parse_file and
\* MarkdownStructureParser.parse_file also fill end_line
parse_file(p, file, text) ==
    LET ls == SplitLines(text)
        d == IF p = "MarkdownStructureParser" THEN <<>> ELSE _parse_attributes(ls)
        st == IF p = "MarkdownStructureParser"
              THEN MarkdownSectionsFrom(EmptyParse, ls, 1, file)
              ELSE _parse_sections(ls, file, d)
    IN [file_path |-> file,
        title |-> st.document_title,
        heap |-> IF p = "AsciidocParser"
                 THEN st.heap ELSE PopulateEndLines(st.heap, Len(ls)),
        sections |-> st.sections,
        attributes |-> d]

\* the documentation file of the docs root, and its stem
SourceFile == "d.adoc"

\* the documentation file as the parser p of its format sees it
DocsFile(p) == IF p = "MarkdownStructureParser" THEN "d.md" ELSE SourceFile

FileStem == <<"d">>

\* the composite key "<file-stem>:<section.path>" of a section
CompositeKey(section) ==
    IF section.path = <<>> THEN FileStem ELSE FileStem \o <<":">> \o section.path

\* StructureIndex(): no document, no Section, empty maps
EmptyIndex ==
    [documents |-> <<>>, heap |-> <<>>, _path_to_section |-> <<>>,
     _file_to_sections |-> <<>>]

\* mutant: build_from_documents populates on top of the state it finds
ClearIndex_keeping(index) == index

\* build_from_documents replaces the prior state: it starts from empty maps
ClearIndex(index) == EmptyIndex

\* the path -> Section map after the sections heap[i..] were entered under their
\* composite keys; a key that is already present keeps its Section
RECURSIVE AddKeysFrom(_, _, _)
AddKeysFrom(d, heap, i) ==
    IF i > Len(heap) THEN d
    ELSE AddKeysFrom(IF DictHas(d, CompositeKey(heap[i])) THEN d
                     ELSE Append(d, <<CompositeKey(heap[i]), i>>),
                     heap, i + 1)

\* the value under a key of a map, <<>> without the key
DictGet(d, name) ==
    LET hit == {k \in 1..Len(d) : d[k][1] = name}
    IN IF hit = {} THEN <<>> ELSE d[Min(hit)][2]

\* build_from_documents, the populating part: the document, its Section objects
\* (references are positions in heap), their keys, and the file's top-level
\* sections are entered into the index
PopulateIndex(index, doc) ==
    LET shift == Len(index.heap)
        entered == [i \in 1..Len(doc.heap) |->
                       [doc.heap[i] EXCEPT
                           !.children = [k \in 1..Len(@) |-> @[k] + shift]]]
        heap == index.heap \o entered
        top == [k \in 1..Len(doc.sections) |-> doc.sections[k] + shift]
    IN [documents |-> Append(index.documents, doc),
        heap |-> heap,
        _path_to_section |-> AddKeysFrom(index._path_to_section, heap, shift + 1),
        _file_to_sections |->
            IF top = <<>> THEN index._file_to_sections
            ELSE DictSet(index._file_to_sections, doc.file_path,
                         DictGet(index._file_to_sections, doc.file_path) \o top)]

\* index.build_from_documents([doc]) on an index in whatever state
build_from_documents_on(index, doc) == PopulateIndex(ClearIndex(index), doc)

\* StructureIndex().build_from_documents([doc]), for the one document of the
\* docs root
build_from_documents(doc) == build_from_documents_on(EmptyIndex, doc)

\* mutant: an unknown path answers with the first section of the index
get_section_lenient(index, path) ==
    LET key == IF StartsWith(path, <<"/">>) THEN Drop(path, 1) ELSE path
    IN IF DictHas(index._path_to_section, key)
       THEN DictGet(index._path_to_section, key) ELSE 1

\* StructureIndex.get_section: the Section under the key (a heap reference), or None.
\* The API hands over "/" + path; keys carry no leading slash
get_section(index, path) ==
    LET key == IF StartsWith(path, <<"/">>) THEN Drop(path, 1) ELSE path
    IN IF DictHas(index._path_to_section, key)
       THEN DictGet(index._path_to_section, key) ELSE None

----------------------------------------------------------------------------
(* dacli/api/manipulation.py *)

\* the outcome of _file_handler.read_file: the text, or FileReadError
FileReadError == <<"FileReadError">>

\* mutant: the file is read also when the parser populated end_line
_get_section_end_line_reading(section, read) ==
    IF read # FileReadError THEN Len(SplitLines(read)) ELSE section.line + 10

\* _get_section_end_line; read is the outcome of the read_file it may issue
_get_section_end_line(section, read) ==
    IF section.end_line # None THEN section.end_line
    ELSE IF read # FileReadError THEN Len(SplitLines(read))
    ELSE section.line + 10

\* mutant: the recursion descends into the first child
LastChild_first(children) == children[1]

\* which child _get_section_end_with_children descends into: section.children[-1]
LastChild(children) == children[Len(children)]

\* mutant: the end line of the section itself, without descending
_get_section_end_own(heap, i, read) == _get_section_end_line(heap[i], read)

\* _get_section_end_with_children
RECURSIVE _get_section_end_with_children(_, _, _)
_get_section_end_with_children(heap, i, read) ==
    IF heap[i].children = <<>> THEN _get_section_end_line(heap[i], read)
    ELSE _get_section_end_with_children(heap, LastChild(heap[i].children), read)

\* normalized_path = f"/{path}" if not path.startswith("/") else path
NormalizePath(path) == IF StartsWith(path, <<"/">>) THEN path ELSE <<"/">> \o path

\* mutant: the original title line is prepended to every content
PrepareContent_always_titled(section, content, preserve_title) ==
    LET titled == Repeat("=", section.level + 1) \o <<" ">> \o section.title
                      \o <<NL, NL>> \o content
    IN IF EndsWith(titled, <<NL>>) THEN titled ELSE titled \o <<NL>>

\* update_section, "Prepare content": the text handed to the file handler
PrepareContent(section, content, preserve_title) ==
    LET stripped_content == LStrip(content)
        has_explicit_title ==
            StartsWith(stripped_content, <<"=">>) \/ StartsWith(stripped_content, <<"#">>)
        level_markers == Repeat("=", section.level + 1)
        titled == IF preserve_title /\ ~has_explicit_title
                  THEN level_markers \o <<" ">> \o section.title \o <<NL, NL>> \o content
                  ELSE content
    IN IF EndsWith(titled, <<NL>>) THEN titled ELSE titled \o <<NL>>

\* insert_content: content += "\n" unless it ends with a newline
EnsureNewline(content) == IF EndsWith(content, <<NL>>) THEN content ELSE content \o <<NL>>

\* the line below which insert_content splices for each position: the count of
\* lines kept in front of the inserted text
InsertSplit(heap, i, position, end_line, end_with_children) ==
    IF position = "before" THEN heap[i].line - 1
    ELSE IF position = "after" THEN end_with_children
    ELSE end_line - 1

NoRequest ==
    [op |-> "none", status |-> 0, code |-> "", path |-> <<>>, content |-> <<>>,
     preserve_title |-> FALSE, position |-> "", section |-> None,
     read_ok |-> TRUE, start_line |-> 0, end_line |-> 0, line |-> 0,
     new_content |-> <<>>, file_ops |-> <<>>,
     before |-> <<>>, index_before |-> <<>>]

\* the documentation file the requests work on
Documents ==
    { <<"=", " ", "T", NL,  "=", "=", " ", "A", NL,  "a", NL,
        "=", "=", "=", " ", "B", NL,  "b", NL,  "=", "=", " ", "C", NL,  "c", NL>>,
      <<"=", " ", "T", NL,  "=", "=", " ", "A", NL,  "a", NL,
        "=", "=", "=", " ", "B", NL,  "=", "=", "=", "=", " ", "C", NL,  "c">>,
      <<>> }

\* the Markdown file of the docs root
MarkdownDocuments ==
    { <<"#", " ", "T", NL,  "#", "#", " ", "A", NL,  "a", NL>> }

\* the content of a request
Contents ==
    { <<"x">>,
      <<"=", "=", "=", " ", "U", NL>>,
      <<"=", "=", " ", "U", NL, NL>> }

\* the paths clients ask for: every section of the documents, and an unknown one
RequestPaths ==
    UNION { {CompositeKey(parse_file("AsciidocParser", SourceFile, d).heap[i]) :
                i \in 1..Len(parse_file("AsciidocParser", SourceFile, d).heap)} :
            d \in Documents }
    \cup { FileStem \o <<":", "x">> }

\* mutant: get_index raises also after set_index
IndexReady_never == FALSE

\* dependencies.get_index: the index, unless none was set (503 INDEX_NOT_READY)
IndexReady == _index # <<>>

get_index == _index[1]

\* the index is rebuilt from the docs root and handed to dependencies.set_index
set_index ==
    /\ parser \in {"AsciidocParser", "AsciidocStructureParser", "MarkdownStructureParser"}
    /\ _index' = <<build_from_documents_on(IF IndexReady THEN get_index ELSE EmptyIndex,
                                            parse_file(parser, DocsFile(parser), disk))>>
    /\ _index' # _index
    /\ last' = [NoRequest EXCEPT !.op = "set_index", !.before = disk,
                                 !.index_before = _index]
    /\ UNCHANGED <<disk, calls, parser, parseVars, condVars, incVars>>

\* the outcomes of one file operation that matter to a request: it succeeds, or
\* (where the request issues it at all) it fails
Outcomes(issued) == IF issued THEN {TRUE, FALSE} ELSE {TRUE}

\* whether _get_section_end_line reads the file for section i
ReadsFile(section) == section.end_line = None

\* the _file_handler calls update_section issues once the section is found: the
\* read of _get_section_end_line's fallback, then _file_handler.update_section
UpdateFileOps(section) ==
    (IF ReadsFile(section) THEN <<"read_file">> ELSE <<>>) \o <<"update_section">>

\* mutant: update_section replaces the section together with its descendants
UpdateRange_with_children(heap, i, read) ==
    [start_line |-> heap[i].line,
     end_line |-> _get_section_end_with_children(heap, i, read)]

\* update_section: the line range handed to the file handler
UpdateRange(heap, i, read) ==
    [start_line |-> heap[i].line, end_line |-> _get_section_end_line(heap[i], read)]

\* the section whose end line _get_section_end_with_children returns
RECURSIVE DeepestLast(_, _)
DeepestLast(heap, i) ==
    IF heap[i].children = <<>> THEN i ELSE DeepestLast(heap, LastChild(heap[i].children))

\* the _file_handler calls insert_content issues once the section is found: the
\* fallback read for end_line, read_file, and when that succeeded the fallback
\* read of _get_section_end_with_children (position "after"), then write_file
InsertFileOps(heap, i, position, read_ok) ==
    (IF ReadsFile(heap[i]) THEN <<"read_file">> ELSE <<>>) \o <<"read_file">>
    \o (IF ~read_ok THEN <<>>
        ELSE (IF position = "after" /\ ReadsFile(heap[DeepestLast(heap, i)])
              THEN <<"read_file">> ELSE <<>>) \o <<"write_file">>)

\* mutant: the endpoint re-parses the file it wrote and sets the new index
IndexAfterRequest_reparsed(index, text) ==
    IF index = <<>> THEN index
    ELSE <<build_from_documents(parse_file("AsciidocStructureParser", SourceFile, text))>>

\* the index a request leaves behind: the endpoints read the index through
\* get_index and call neither set_index nor build_from_documents
IndexAfterRequest(index, text) == index

\* PUT /section/{path}
update_section ==
    /\ calls < MaxCalls
    /\ \E path \in RequestPaths, content \in Contents, preserve_title \in BOOLEAN :
          LET req == [NoRequest EXCEPT !.op = "update_section", !.path = path,
                          !.content = content, !.preserve_title = preserve_title,
                          !.before = disk, !.index_before = _index]
              normalized_path == NormalizePath(path)
              i == IF IndexReady THEN get_section(get_index, normalized_path) ELSE None
          IN IF ~IndexReady
             THEN /\ last' = [req EXCEPT !.status = 503, !.code = "INDEX_NOT_READY"]
                  /\ disk' = disk
             ELSE IF i = None
             THEN /\ last' = [req EXCEPT !.status = 404, !.code = "PATH_NOT_FOUND"]
                  /\ disk' = disk
             ELSE \E read_ok \in Outcomes(ReadsFile(get_index.heap[i])),
                     write_ok \in BOOLEAN :
                  LET section == get_index.heap[i]
                      range == UpdateRange(get_index.heap, i,
                                   IF read_ok THEN disk ELSE FileReadError)
                      new_content == PrepareContent(section, content, preserve_title)
                      found == [req EXCEPT !.section = i, !.read_ok = read_ok,
                                    !.start_line = range.start_line,
                                    !.end_line = range.end_line,
                                    !.new_content = new_content,
                                    !.file_ops = UpdateFileOps(section)]
                  IN IF ~write_ok
                     THEN /\ last' = [found EXCEPT !.status = 500, !.code = "WRITE_FAILED"]
                          /\ disk' = disk
                     ELSE /\ last' = [found EXCEPT !.status = 200,
                                           !.line = range.start_line]
                          /\ disk' = FileUpdateSection(disk, range.start_line,
                                         range.end_line, new_content)
    /\ calls' = calls + 1
    /\ _index' = IndexAfterRequest(_index, disk')
    /\ UNCHANGED <<parser, parseVars, condVars, incVars>>

\* POST /section/{path}/insert
insert_content ==
    /\ calls < MaxCalls
    /\ \E path \in RequestPaths, content \in Contents,
          position \in {"before", "after", "append"} :
          LET req == [NoRequest EXCEPT !.op = "insert_content", !.path = path,
                          !.content = content, !.position = position,
                          !.before = disk, !.index_before = _index]
              normalized_path == NormalizePath(path)
              i == IF IndexReady THEN get_section(get_index, normalized_path) ELSE None
          IN IF ~IndexReady
             THEN /\ last' = [req EXCEPT !.status = 503, !.code = "INDEX_NOT_READY"]
                  /\ disk' = disk
             ELSE IF i = None
             THEN /\ last' = [req EXCEPT !.status = 404, !.code = "PATH_NOT_FOUND"]
                  /\ disk' = disk
             ELSE \E end_read_ok \in Outcomes(
                        \/ position = "append" /\ ReadsFile(get_index.heap[i])
                        \/ position = "after"
                             /\ ReadsFile(get_index.heap[DeepestLast(get_index.heap, i)])),
                     read_ok \in BOOLEAN, write_ok \in BOOLEAN :
                  LET section == get_index.heap[i]
                      read == IF end_read_ok THEN disk ELSE FileReadError
                      start_line == section.line
                      end_line == _get_section_end_line(section, read)
                      new_content == EnsureNewline(content)
                      file_lines == SplitLinesKeep(disk)
                      end_with_children ==
                          _get_section_end_with_children(get_index.heap, i, read)
                      split == InsertSplit(get_index.heap, i, position, end_line,
                                           end_with_children)
                      insert_line == IF position = "before" THEN start_line
                                     ELSE IF position = "after" THEN end_with_children + 1
                                     ELSE end_line
                      new_lines == SliceTo(file_lines, split) \o <<new_content>>
                                       \o SliceFrom(file_lines, split)
                      found == [req EXCEPT !.section = i, !.read_ok = end_read_ok,
                                    !.start_line = start_line,
                                    !.end_line = IF position = "after"
                                                 THEN end_with_children ELSE end_line,
                                    !.new_content = new_content,
                                    !.file_ops = InsertFileOps(get_index.heap, i,
                                                     position, read_ok)]
                  IN IF ~read_ok
                     THEN /\ last' = [found EXCEPT !.status = 500, !.code = "READ_FAILED"]
                          /\ disk' = disk
                     ELSE IF ~write_ok
                     THEN /\ last' = [found EXCEPT !.status = 500, !.code = "WRITE_FAILED"]
                          /\ disk' = disk
                     ELSE /\ last' = [found EXCEPT !.status = 200, !.line = insert_line]
                          /\ disk' = Join(new_lines)
    /\ calls' = calls + 1
    /\ _index' = IndexAfterRequest(_index, disk')
    /\ UNCHANGED <<parser, parseVars, condVars, incVars>>

ParseIdle ==
    /\ lines = <<>>
    /\ line_num = 0
    /\ attributes = <<>>
    /\ section_heap = <<>>
    /\ sections = <<>>
    /\ section_stack = <<>>
    /\ document_title = <<>>

ApiIdle ==
    /\ disk = <<>>
    /\ _index = <<>>
    /\ calls = 0
    /\ last = NoRequest

CondIdle ==
    /\ condition_stack = <<>>
    /\ filtered = <<>>

IncIdle ==
    /\ files = <<>>
    /\ max_include_depth = 0
    /\ file_path = <<>>
    /\ all_lines = <<>>
    /\ expansions = <<>>
    /\ report = <<>>

Init ==
    /\ \/ disk \in Documents /\ parser \in {"AsciidocParser", "AsciidocStructureParser"}
       \/ disk \in MarkdownDocuments /\ parser = "MarkdownStructureParser"
    /\ _index = <<>>
    /\ calls = 0
    /\ last = NoRequest
    /\ ParseIdle
    /\ CondIdle
    /\ IncIdle

Next ==
    \/ set_index
    \/ update_section
    \/ insert_content

Spec == Init /\ [][Next]_vars

----------------------------------------------------------------------------
(* Properties of update_section and insert_content, checked under Spec *)

\* the Section the last request resolved, in the index the request found
TargetHeap == last.index_before[1].heap

TargetSection == TargetHeap[last.section]

BeforeLines == SplitLinesKeep(last.before)

\* the index the last request found was built from the file the request found
IndexFresh ==
    last.index_before = <<build_from_documents(parse_file(parser, DocsFile(parser), last.before))>>

\* the level of the heading the content starts with (-1: no heading line first)
ContentHeadingLevel(content) ==
    LET ls == SplitLines(LStrip(content))
    IN IF ls # <<>> /\ SECTION_PATTERN(ls[1]).matched
       THEN SECTION_PATTERN(ls[1]).equals - 1 ELSE -1

\* section i and all its descendants
RECURSIVE Subtree(_, _)
Subtree(heap, i) ==
    {i} \cup UNION {Subtree(heap, heap[i].children[k]) : k \in 1..Len(heap[i].children)}

UpdateOK == last.op = "update_section" /\ last.status = 200

\* C1: an update whose content starts with a heading of another level than the
\* target section's is rejected and leaves the file unchanged, with or without
\* children; with a heading of the same level it succeeds (unless the write fails).
C1_LevelChangeRejected ==
    (last.op = "update_section" /\ last.section # None
        /\ ContentHeadingLevel(last.content) >= 0) =>
        IF ContentHeadingLevel(last.content) # TargetSection.level
        THEN last.status # 200 /\ last.code # "WRITE_FAILED" /\ disk = last.before
        ELSE last.status = 200 \/ last.code = "WRITE_FAILED"

InsertAfterOK == last.op = "insert_content" /\ last.position = "after" /\ last.status = 200

\* the sections behind S that are no descendants of S
Following(heap, i) == {j \in 1..Len(heap) : j > i /\ j \notin Subtree(heap, i)}

----------------------------------------------------------------------------
(* Specification ParseSpec: one parser run over a drawn list of lines *)

LineTemplates ==
    { <<"=", " ", "T">>,
      <<"=", "=", " ", "A">>,
      <<"=", "=", " ", "a">>,
      <<"=", "=", "=", " ", "A">>,
      <<"=", "=", "=", "=", " ", "B">>,
      <<"-", "-", "-", "-">>,
      <<":", "v", ":", " ", "A">>,
      <<"=", "=", " ", "{", "v", "}">> }

LineLists == UNION {[1..n -> LineTemplates] : n \in 0..MaxLines}

\* the lines of a document with a title, two chapters and a numbered subsection:
\* "= Title\n\n== A\n\n=== A.1\n\n== B\n"
NestedDocument ==
    << <<"=", " ", "T", "i", "t", "l", "e">>, <<>>,
       <<"=", "=", " ", "A">>, <<>>,
       <<"=", "=", "=", " ", "A", ".", "1">>, <<>>,
       <<"=", "=", " ", "B">> >>

\* the characters heading titles are drawn from, and the longest title drawn
TitleChars == {"Ü", "a", "1", "_", "-", " ", "!"}

MaxTitleLen == 2

\* a title with upper case, punctuation, a digit and a non-ASCII letter
ExampleTitle ==
    <<"K", "a", "p", "i", "t", "e", "l", " ", "2", ":", " ",
      "Ü", "b", "e", "r", " ", "u", "n", "s", "!">>

Titles == UNION {[1..n -> TitleChars] : n \in 1..MaxTitleLen} \cup {ExampleTitle}

\* documents of one document-title line
TitleDocuments == { << <<"=", " ">> \o t >> : t \in Titles }

\* document headers: attribute lines, blank lines and a title line in any order
MaxAttrLines == 4

AttributeDocuments ==
    UNION {[1..n -> { <<":", "v", ":", " ", "A">>, <<":", "v", ":">>, <<>>,
                      <<"=", " ", "T">> }] : n \in 1..MaxAttrLines}

ParseInit ==
    /\ lines \in LineLists \cup {NestedDocument} \cup TitleDocuments \cup AttributeDocuments
    /\ parser \in {"AsciidocParser", "parse_document"}
    /\ line_num = 0
    /\ attributes = <<>>
    /\ section_heap = <<>>
    /\ sections = <<>>
    /\ section_stack = <<>>
    /\ document_title = <<>>
    /\ ApiIdle
    /\ CondIdle
    /\ IncIdle

\* AsciidocParser.parse_file up to the call of _parse_sections
parse_file_begin ==
    /\ parser = "AsciidocParser"
    /\ line_num = 0
    /\ attributes' = _parse_attributes(lines)
    /\ line_num' = 1
    /\ UNCHANGED <<lines, parser, section_heap, sections, section_stack, document_title, apiVars, condVars, incVars>>

\* one iteration of the for-loop of _parse_sections
parse_sections_line ==
    /\ parser = "AsciidocParser"
    /\ line_num >= 1
    /\ line_num <= Len(lines)
    /\ LET st == ParseSectionsStep(
                    [heap |-> section_heap, sections |-> sections,
                     section_stack |-> section_stack, document_title |-> document_title],
                    lines, line_num, attributes, SourceFile)
       IN /\ section_heap' = st.heap
          /\ sections' = st.sections
          /\ section_stack' = st.section_stack
          /\ document_title' = st.document_title
    /\ line_num' = line_num + 1
    /\ UNCHANGED <<lines, parser, attributes, apiVars, condVars, incVars>>

\* parse_document: the file's lines are read with their newlines
parse_document_begin ==
    /\ parser = "parse_document"
    /\ line_num = 0
    /\ lines' = [i \in 1..Len(lines) |-> Append(lines[i], NL)]
    /\ line_num' = 1
    /\ UNCHANGED <<parser, attributes, section_heap, sections, section_stack, document_title, apiVars, condVars, incVars>>

\* one iteration of the section loop of parse_document
parse_document_line ==
    /\ parser = "parse_document"
    /\ line_num >= 1
    /\ line_num <= Len(lines)
    /\ LET st == ParseDocumentStep(
                    [heap |-> section_heap, sections |-> sections,
                     section_stack |-> section_stack, document_title |-> document_title],
                    lines, line_num)
       IN /\ section_heap' = st.heap
          /\ sections' = st.sections
          /\ section_stack' = st.section_stack
          /\ document_title' = st.document_title
    /\ line_num' = line_num + 1
    /\ UNCHANGED <<lines, parser, attributes, apiVars, condVars, incVars>>

ParseNext ==
    \/ parse_file_begin
    \/ parse_sections_line
    \/ parse_document_begin
    \/ parse_document_line

ParseSpec == ParseInit /\ [][ParseNext]_vars

ParseDone == line_num = Len(lines) + 1

----------------------------------------------------------------------------
(* Properties of the section parsers, checked under ParseSpec *)

InList(l, i) == \E k \in 1..Len(l) : l[k] = i

Increasing(l) == \A k \in 1..(Len(l) - 1) : l[k] < l[k + 1]

\* the nearest heading before heading i whose level is lower (0: there is none)
NearestLower(i) ==
    LET lower == {j \in 1..(i - 1) : section_heap[j].level < section_heap[i].level}
    IN IF lower = {} THEN 0 ELSE Max(lower)

\* C4: the parent of every heading is the nearest preceding heading of a lower
\* level, a heading without one is a top-level section of the document, and the
\* top-level list and every children list are in document order.
C4_NearestLowerParent ==
    /\ \A i \in 1..Len(section_heap) :
          /\ InList(sections, i) <=> NearestLower(i) = 0
          /\ \A j \in 1..Len(section_heap) :
                InList(section_heap[j].children, i) <=> j = NearestLower(i)
    /\ Increasing(sections)
    /\ \A j \in 1..Len(section_heap) : Increasing(section_heap[j].children)

\* a finished run of AsciidocParser with a grandchild and a second top-level section
C4_Witness ==
    /\ parser = "AsciidocParser"
    /\ ParseDone
    /\ Len(sections) >= 2
    /\ \E i \in 1..Len(section_heap) :
          NearestLower(i) # 0 /\ NearestLower(NearestLower(i)) # 0

\* a listing block delimiter line
IsBlockDelimiter(line) == line = <<"-", "-", "-", "-">>

\* line num lies between an opening delimiter and its matching closing delimiter
InsideDelimitedBlock(ls, num) ==
    /\ ~IsBlockDelimiter(ls[num])
    /\ Cardinality({k \in 1..(num - 1) : IsBlockDelimiter(ls[k])}) % 2 = 1
    /\ \E k \in (num + 1)..Len(ls) : IsBlockDelimiter(ls[k])

\* C5: a heading-like line inside a delimited block never produces a Section,
\* while every heading line outside the blocks that the loop has passed has one.
C5_NoSectionInsideBlock ==
    parser = "AsciidocParser" =>
        /\ \A i \in 1..Len(section_heap) :
              ~InsideDelimitedBlock(lines, section_heap[i].line)
        /\ \A num \in 1..(line_num - 1) :
              (SECTION_PATTERN(lines[num]).matched /\ ~InsideDelimitedBlock(lines, num))
                  => \E i \in 1..Len(section_heap) : section_heap[i].line = num

\* C10: no two distinct sections of a parsed document have the same path.
C10_PathsUnique ==
    parser = "AsciidocParser" =>
        \A i, j \in 1..Len(section_heap) :
            i # j => section_heap[i].path # section_heap[j].path


----------------------------------------------------------------------------
(* The conditional evaluator of the AsciiDoc parser: a line-filtering pre-pass
   carrying a stack of boolean conditions, run before heading extraction *)

\* position of the first c in s, 0 if there is none
IndexOf(s, c) ==
    LET hit == {i \in 1..Len(s) : s[i] = c}
    IN IF hit = {} THEN 0 ELSE Min(hit)

\* ifdef::attr[content] / ifndef::attr[content]; an empty content is the block form
ConditionalDirective(line) ==
    LET neg == StartsWith(line, <<"i", "f", "n", "d", "e", "f", ":", ":">>)
        pos == StartsWith(line, <<"i", "f", "d", "e", "f", ":", ":">>)
        rest == Drop(line, IF neg THEN 8 ELSE 7)
        open == IndexOf(rest, "[")
        ok == (neg \/ pos) /\ open > 1 /\ EndsWith(rest, <<"]">>)
    IN [matched |-> ok,
        negate |-> neg,
        attr |-> IF ok THEN Take(rest, open - 1) ELSE <<>>,
        content |-> IF ok THEN SubSeq(rest, open + 1, Len(rest) - 1) ELSE <<>>]

\* endif::[] or endif::attr[]; the attribute name is not looked at
EndifDirective(line) ==
    StartsWith(line, <<"e", "n", "d", "i", "f", ":", ":">>) /\ EndsWith(line, <<"[", "]">>)

\* ifdef: the name is present in the attributes map; ifndef: its negation
EvaluateCondition(d, attrs) ==
    IF d.negate THEN ~DictHas(attrs, d.attr) ELSE DictHas(attrs, d.attr)

\* mutant: only the innermost open region decides
AllTrue_innermost(stack) == stack = <<>> \/ stack[Len(stack)]

\* conditional visibility is the logical AND of the stack
AllTrue(stack) == \A i \in 1..Len(stack) : stack[i]

\* mutant: a block directive inside suppressed content opens no region
OpenRegion_unless_suppressed(stack, value) ==
    IF AllTrue(stack) THEN Append(stack, value) ELSE stack

\* a block-form ifdef/ifndef opens a region
OpenRegion(stack, value) == Append(stack, value)

\* endif closes the innermost open region
CloseRegion(stack) == IF stack = <<>> THEN stack ELSE SubSeq(stack, 1, Len(stack) - 1)

\* mutant: the single-line form opens a region like the block form
FilterStep_inline_opens(st, line, num, attrs) ==
    LET d == ConditionalDirective(line)
        visible == AllTrue(st.condition_stack)
        opened == [st EXCEPT !.condition_stack = OpenRegion(@, EvaluateCondition(d, attrs))]
    IN IF EndifDirective(line)
       THEN [st EXCEPT !.condition_stack = CloseRegion(@)]
       ELSE IF d.matched /\ d.content = <<>> THEN opened
       ELSE IF d.matched
       THEN IF visible /\ EvaluateCondition(d, attrs)
            THEN [opened EXCEPT !.filtered = Append(@, [line |-> num, text |-> d.content])]
            ELSE opened
       ELSE IF visible
       THEN [st EXCEPT !.filtered = Append(@, [line |-> num, text |-> line])]
       ELSE st

\* one line of the pre-pass; st = [condition_stack, filtered]
FilterStep(st, line, num, attrs) ==
    LET d == ConditionalDirective(line)
        visible == AllTrue(st.condition_stack)
    IN IF EndifDirective(line)
       THEN [st EXCEPT !.condition_stack = CloseRegion(@)]
       ELSE IF d.matched /\ d.content = <<>>
       THEN [st EXCEPT !.condition_stack = OpenRegion(@, EvaluateCondition(d, attrs))]
       ELSE IF d.matched
       THEN IF visible /\ EvaluateCondition(d, attrs)
            THEN [st EXCEPT !.filtered = Append(@, [line |-> num, text |-> d.content])]
            ELSE st
       ELSE IF visible
       THEN [st EXCEPT !.filtered = Append(@, [line |-> num, text |-> line])]
       ELSE st

\* the lines a document may consist of
CondLineTemplates ==
    { <<"i", "f", "d", "e", "f", ":", ":", "a", "[", "]">>,
      <<"i", "f", "n", "d", "e", "f", ":", ":", "a", "[", "]">>,
      <<"e", "n", "d", "i", "f", ":", ":", "[", "]">>,
      <<"e", "n", "d", "i", "f", ":", ":", "a", "[", "]">>,
      <<"i", "f", "d", "e", "f", ":", ":", "a", "[", "=", "=", " ", "B", "]">>,
      <<"=", "=", " ", "A">> }

\* the attributes map: nothing defined, or "a" defined with an empty value
CondAttributes == { <<>>, << <<<<"a">>, <<>>>> >> }

CondInit ==
    /\ parser = "AsciidocStructureParser"
    /\ attributes \in CondAttributes
    /\ lines = <<>>
    /\ line_num = 1
    /\ condition_stack = <<>>
    /\ filtered = <<>>
    /\ section_heap = <<>>
    /\ sections = <<>>
    /\ section_stack = <<>>
    /\ document_title = <<>>
    /\ ApiIdle
    /\ IncIdle

\* the pre-pass reads the next line of the document
filter_line ==
    /\ parser = "AsciidocStructureParser"
    /\ line_num <= MaxCondLines
    /\ \E line \in CondLineTemplates :
          LET st == FilterStep([condition_stack |-> condition_stack, filtered |-> filtered],
                               line, line_num, attributes)
          IN /\ lines' = Append(lines, line)
             /\ condition_stack' = st.condition_stack
             /\ filtered' = st.filtered
    /\ line_num' = line_num + 1
    /\ UNCHANGED <<parser, attributes, section_heap, sections, section_stack,
                   document_title, apiVars, incVars>>

CondNext == filter_line

CondSpec == CondInit /\ [][CondNext]_vars

----------------------------------------------------------------------------
(* Properties of the conditional pre-pass, checked under CondSpec *)

IsBlockConditional(line) ==
    ConditionalDirective(line).matched /\ ConditionalDirective(line).content = <<>>

IsPlainLine(line) == ~EndifDirective(line) /\ ~ConditionalDirective(line).matched

\* the block directives among the first n lines whose region is still open behind
\* line n, outermost first
RECURSIVE OpenRegions(_, _)
OpenRegions(ls, n) ==
    IF n = 0 THEN <<>>
    ELSE LET before == OpenRegions(ls, n - 1)
         IN IF EndifDirective(ls[n])
            THEN (IF before = <<>> THEN <<>> ELSE SubSeq(before, 1, Len(before) - 1))
            ELSE IF IsBlockConditional(ls[n]) THEN Append(before, n)
            ELSE before

IsVisible(k) == \E i \in 1..Len(filtered) : filtered[i].line = k

\* C6: a line is handed on to extraction iff every conditional region open at it
\* evaluates true, where every block-form ifdef/ifndef opens a region (also inside
\* suppressed content) and every endif, named or not, closes the innermost one.
C6_VisibleIffAllRegionsTrue ==
    \A k \in 1..Len(lines) :
        IsPlainLine(lines[k]) =>
            (IsVisible(k) <=>
                \A j \in 1..Len(OpenRegions(lines, k - 1)) :
                    EvaluateCondition(ConditionalDirective(lines[OpenRegions(lines, k - 1)[j]]),
                                      attributes))

\* a false outer region with a true region nested in it: the line inside is
\* suppressed, the line behind the outer endif is visible again
C6_Witness ==
    /\ Len(lines) = 6
    /\ IsBlockConditional(lines[1]) /\ ~EvaluateCondition(ConditionalDirective(lines[1]), attributes)
    /\ IsBlockConditional(lines[2]) /\ EvaluateCondition(ConditionalDirective(lines[2]), attributes)
    /\ IsPlainLine(lines[3]) /\ ~IsVisible(3)
    /\ EndifDirective(lines[4]) /\ EndifDirective(lines[5])
    /\ lines[4] # lines[5]
    /\ IsPlainLine(lines[6]) /\ IsVisible(6)


----------------------------------------------------------------------------
(* Include expansion: parse_document's preprocessing, and the AsciiDoc parser's
   include resolver *)

\* INCLUDE_REGEX = ^include::([^\[]+)\[\]
INCLUDE_REGEX(line) ==
    LET rest == Drop(line, 9)
        open == IndexOf(rest, "[")
        ok == /\ StartsWith(line, <<"i", "n", "c", "l", "u", "d", "e", ":", ":">>)
              /\ open > 1
              /\ Len(rest) > open
              /\ rest[open + 1] = "]"
    IN [matched |-> ok, group1 |-> IF ok THEN Take(rest, open - 1) ELSE <<>>]

\* the elements of a list
Range(seq) == {seq[i] : i \in 1..Len(seq)}

\* parse_document, "Pre-process file to handle includes": the loop from line i on.
\* fs maps the names of the files that exist to their lines; every entry of
\* all_lines carries the file and line it was read from
RECURSIVE PreprocessFrom(_, _, _)
PreprocessFrom(fs, path, i) ==
    IF i > Len(fs[path]) THEN [all_lines |-> <<>>, expansions |-> <<>>]
    ELSE LET line == fs[path][i] \o <<NL>>
             include_match == INCLUDE_REGEX(line)
             include_filename == Strip(include_match.group1)
             rest == PreprocessFrom(fs, path, i + 1)
             kept == <<[file |-> path, line |-> i, text |-> line]>>
         IN IF include_match.matched /\ include_filename \in DOMAIN fs
            THEN [all_lines |->
                     [k \in 1..Len(fs[include_filename]) |->
                         [file |-> include_filename, line |-> k,
                          text |-> fs[include_filename][k] \o <<NL>>]]
                     \o rest.all_lines,
                  expansions |->
                     <<[file |-> path, line |-> i, target |-> include_filename,
                        chain |-> <<path>>]>> \o rest.expansions]
            ELSE [all_lines |-> kept \o rest.all_lines, expansions |-> rest.expansions]

\* the include resolver: the lines of file from line i on, expanded; chain is the
\* inclusion chain from the root document down to file
RECURSIVE ResolveFrom(_, _, _, _, _)
ResolveFrom(fs, file, i, chain, depth) ==
    IF i > Len(fs[file])
    THEN [all_lines |-> <<>>, includes |-> <<>>, circular |-> <<>>,
          parse_warnings |-> <<>>, expansions |-> <<>>]
    ELSE LET line == fs[file][i]
             m == INCLUDE_REGEX(line)
             target == Strip(m.group1)
             rest == ResolveFrom(fs, file, i + 1, chain, depth)
             info == <<[target_path |-> target, file |-> file, line |-> i]>>
         IN IF ~m.matched
            THEN [rest EXCEPT !.all_lines = <<[file |-> file, line |-> i, text |-> line]>> \o @]
            ELSE IF target \in Range(chain)
            THEN [rest EXCEPT !.includes = info \o @,
                              !.circular = <<[file |-> file,
                                              include_chain |-> Append(chain, target)]>> \o @]
            ELSE IF target \notin DOMAIN fs
            THEN [rest EXCEPT !.includes = info \o @]
            ELSE IF Len(chain) > depth
            THEN [rest EXCEPT !.includes = info \o @,
                              !.parse_warnings =
                                  <<[type |-> "include_depth_exceeded",
                                     file |-> file, line |-> i]>> \o @]
            ELSE LET sub == ResolveFrom(fs, target, 1, Append(chain, target), depth)
                 IN [all_lines |-> sub.all_lines \o rest.all_lines,
                     includes |-> info \o sub.includes \o rest.includes,
                     circular |-> sub.circular \o rest.circular,
                     parse_warnings |-> sub.parse_warnings \o rest.parse_warnings,
                     expansions |->
                         <<[file |-> file, line |-> i, target |-> target, chain |-> chain]>>
                         \o sub.expansions \o rest.expansions]

\* the Document of one file parsed as the root of its own inclusion chain
ResolveDocument(fs, file, depth) ==
    LET r == ResolveFrom(fs, file, 1, <<file>>, depth)
    IN [file_path |-> file, all_lines |-> r.all_lines, includes |-> r.includes,
        circular |-> r.circular, parse_warnings |-> r.parse_warnings,
        expansions |-> r.expansions]

\* the documentation files of docs_root, in the order find_doc_files yields them
FileNames == << <<"a">>, <<"b">>, <<"c">> >>

\* the files that some file of docs_root includes
IncludedFiles(fs) ==
    {t \in DOMAIN fs :
        \E f \in DOMAIN fs : \E i \in 1..Len(fs[f]) :
            INCLUDE_REGEX(fs[f][i]).matched /\ Strip(INCLUDE_REGEX(fs[f][i]).group1) = t}

\* the index built over docs_root: every file is parsed, its circular-include
\* detections are collected, and the documents handed to build_from_documents are
\* the files in direct
BuildIndex(fs, depth, direct) ==
    LET docs == [k \in 1..Len(FileNames) |-> ResolveDocument(fs, FileNames[k], depth)]
        documents == SelectSeq(docs, LAMBDA d : d.file_path \in direct)
    IN [documents |-> documents,
        heap |-> <<>>,
        _circular_include_errors |-> Join([k \in 1..Len(docs) |-> docs[k].circular]),
        _file_to_sections |->
            {l.file : l \in {x \in UNION {Range(documents[k].all_lines) :
                                             k \in 1..Len(documents)} :
                                SECTION_PATTERN(x.text).matched}}]


----------------------------------------------------------------------------
(* dacli/services/validation_service.py *)

\* mutant: orphan detection that does not look at the circular includes
IsOrphaned_ignoring_cycles(doc_file, indexed_resolved, circular_files) ==
    doc_file \notin indexed_resolved

\* doc_file not in indexed_resolved and doc_file not in circular_files
IsOrphaned(doc_file, indexed_resolved, circular_files) ==
    doc_file \notin indexed_resolved /\ doc_file \notin circular_files

\* mutant: every recorded include is reported
IsUnresolved_always(include, fs) == TRUE

\* not include.target_path.exists()
IsUnresolved(include, fs) == include.target_path \notin DOMAIN fs

\* the unresolved_include errors of one document, in the order of doc.includes
UnresolvedErrors(doc, fs) ==
    LET broken == SelectSeq(doc.includes, LAMBDA include : IsUnresolved(include, fs))
    IN [k \in 1..Len(broken) |->
           [type |-> "unresolved_include", file |-> broken[k].file,
            line |-> broken[k].line, include_path |-> broken[k].target_path]]

\* validate_structure(index, docs_root); fs is the content of docs_root. errors is
\* the list the code builds; warnings is given as a set, as the orphaned files are
\* found by iterating over a set
validate_structure(index, fs) ==
    LET circ == index._circular_include_errors
        circular_errors ==
            [k \in 1..Len(circ) |->
                [type |-> "circular_include", file |-> circ[k].file,
                 line |-> 0, include_path |-> <<>>]]
        circular_files ==
            UNION {{circ[k].file} \cup Range(circ[k].include_chain) : k \in 1..Len(circ)}
        indexed_files == index._file_to_sections
        all_doc_files == DOMAIN fs
        orphaned ==
            {[type |-> "orphaned_file", file |-> doc_file, line |-> 0] :
                doc_file \in {f \in all_doc_files :
                                 IsOrphaned(f, indexed_files, circular_files)}}
        parse_warnings ==
            UNION {Range(index.documents[k].parse_warnings) : k \in 1..Len(index.documents)}
        unresolved ==
            Join([k \in 1..Len(index.documents) |-> UnresolvedErrors(index.documents[k], fs)])
        errors == circular_errors \o unresolved
    IN [valid |-> Len(errors) = 0,
        errors |-> errors,
        warnings |-> orphaned \cup parse_warnings]

----------------------------------------------------------------------------
(* Specification IncSpec: the files of a docs root are parsed, indexed, validated *)

IncLineTemplates ==
    { <<"i", "n", "c", "l", "u", "d", "e", ":", ":", "a", "[", "]">>,
      <<"i", "n", "c", "l", "u", "d", "e", ":", ":", "b", "[", "]">>,
      <<"i", "n", "c", "l", "u", "d", "e", ":", ":", "m", "[", "]">>,
      <<"=", "=", " ", "A">> }

FileContents == UNION {[1..n -> IncLineTemplates] : n \in 0..MaxFileLines}

\* AsciidocParser.__init__: max_include_depth = 20 unless configured
DefaultMaxIncludeDepth == 20

IncInit ==
    /\ files \in [Range(FileNames) -> FileContents]
    /\ \/ parser = "parse_document" /\ max_include_depth = DefaultMaxIncludeDepth
       \/ parser = "AsciidocStructureParser"
            /\ max_include_depth \in {1, DefaultMaxIncludeDepth}
    /\ file_path = <<>>
    /\ all_lines = <<>>
    /\ expansions = <<>>
    /\ report = <<>>
    /\ ParseIdle
    /\ ApiIdle
    /\ CondIdle

\* parse_document(file_path), up to the section loop
parse_document_includes ==
    /\ parser = "parse_document"
    /\ file_path = <<>>
    /\ \E path \in DOMAIN files :
          /\ file_path' = path
          /\ all_lines' = PreprocessFrom(files, path, 1).all_lines
          /\ expansions' = PreprocessFrom(files, path, 1).expansions
    /\ UNCHANGED <<parser, files, max_include_depth, report, parseVars, apiVars, condVars>>

\* the index is built over docs_root and set; the files no other file includes are
\* always handed to build_from_documents
build_index ==
    /\ parser = "AsciidocStructureParser"
    /\ _index = <<>>
    /\ \E direct \in SUBSET (DOMAIN files) :
          /\ (DOMAIN files) \ IncludedFiles(files) \subseteq direct
          /\ _index' = <<BuildIndex(files, max_include_depth, direct)>>
    /\ expansions' =
          Join([k \in 1..Len(FileNames) |->
                   ResolveDocument(files, FileNames[k], max_include_depth).expansions])
    /\ UNCHANGED <<parser, files, max_include_depth, file_path, all_lines, report,
                   disk, calls, last, parseVars, condVars>>

\* validate_structure is called on the index
run_validate_structure ==
    /\ _index # <<>>
    /\ report = <<>>
    /\ report' = <<validate_structure(get_index, files)>>
    /\ UNCHANGED <<parser, files, max_include_depth, file_path, all_lines, expansions,
                   parseVars, apiVars, condVars>>

IncNext ==
    \/ parse_document_includes
    \/ build_index
    \/ run_validate_structure

IncSpec == IncInit /\ [][IncNext]_vars


----------------------------------------------------------------------------
(* Properties of include expansion and validation, checked under IncSpec *)

\* file f holds an include directive naming t
Includes(f, t) ==
    \E i \in 1..Len(files[f]) :
        INCLUDE_REGEX(files[f][i]).matched /\ Strip(INCLUDE_REGEX(files[f][i]).group1) = t

\* the files that have been parsed as a root document
ParsedFiles ==
    IF file_path # <<>> THEN {file_path}
    ELSE IF _index # <<>> THEN DOMAIN files ELSE {}

\* a circular include of target, issued by file, is on record
CircularRecorded(file, target) ==
    /\ _index # <<>>
    /\ \E k \in 1..Len(get_index._circular_include_errors) :
          LET e == get_index._circular_include_errors[k]
          IN e.file = file /\ e.include_chain[Len(e.include_chain)] = target

\* C7: an include whose target is already on the inclusion chain (a file that
\* includes itself in particular) is never expanded and is recorded as a circular
\* include, and no expansion nests deeper than max_include_depth.
C7_CircularIncludeNotExpanded ==
    /\ \A k \in 1..Len(expansions) :
          /\ expansions[k].target \notin Range(expansions[k].chain)
          /\ Len(expansions[k].chain) <= max_include_depth
    /\ \A f \in ParsedFiles : Includes(f, f) => CircularRecorded(f, f)

Validated == report # <<>>

Report == report[1]

\* C8: when A includes B and B includes A (or A includes itself), the report
\* holds a circular_include error, valid is false, and no file of a recorded
\* include chain is reported as orphaned_file.
C8_CircularReportedNotOrphaned ==
    Validated =>
        \A A \in DOMAIN files, B \in DOMAIN files :
            (Includes(A, B) /\ Includes(B, A)) =>
                /\ \E k \in 1..Len(Report.errors) :
                      /\ Report.errors[k].type = "circular_include"
                      /\ Report.errors[k].file \in {A, B}
                /\ Report.valid = FALSE
                /\ \A k \in 1..Len(get_index._circular_include_errors) :
                      LET e == get_index._circular_include_errors[k]
                      IN \A f \in {e.file} \cup Range(e.include_chain) :
                            \A w \in Report.warnings :
                                ~(w.type = "orphaned_file" /\ w.file = f)

\* two files that include each other and are not among the indexed files
C8_Witness ==
    /\ Validated
    /\ \E A \in DOMAIN files, B \in DOMAIN files :
          /\ A # B
          /\ Includes(A, B) /\ Includes(B, A)
          /\ A \notin get_index._file_to_sections
          /\ B \notin get_index._file_to_sections
          /\ CircularRecorded(A, B) /\ CircularRecorded(B, A)

\* the includes recorded in the documents of the index
RecordedIncludes ==
    Join([k \in 1..Len(get_index.documents) |-> get_index.documents[k].includes])

\* C9: an include of a file that does not exist is recorded in Document.includes
\* with its target and source location; validate_structure reports exactly one
\* unresolved_include error per such include and valid = false, and no
\* unresolved_include error for an include whose target exists.
C9_UnresolvedIncludesReported ==
    Validated =>
        LET missing == SelectSeq(RecordedIncludes,
                                 LAMBDA inc : inc.target_path \notin DOMAIN files)
            reported == SelectSeq(Report.errors,
                                  LAMBDA e : e.type = "unresolved_include")
        IN /\ Len(reported) = Len(missing)
           /\ \A k \in 1..Len(missing) :
                 /\ reported[k].file = missing[k].file
                 /\ reported[k].line = missing[k].line
                 /\ reported[k].include_path = missing[k].target_path
           /\ missing # <<>> => Report.valid = FALSE
           /\ \A k \in 1..Len(get_index.documents) :
                 LET d == get_index.documents[k]
                 IN \A i \in 1..Len(files[d.file_path]) :
                       INCLUDE_REGEX(files[d.file_path][i]).matched =>
                           \E n \in 1..Len(d.includes) :
                               /\ d.includes[n].file = d.file_path
                               /\ d.includes[n].line = i
                               /\ d.includes[n].target_path =
                                      Strip(INCLUDE_REGEX(files[d.file_path][i]).group1)

\* a validated index whose documents record an include of a missing file and an
\* include of an existing one
C9_Witness ==
    /\ Validated
    /\ \E n \in 1..Len(RecordedIncludes) : RecordedIncludes[n].target_path \notin DOMAIN files
    /\ \E n \in 1..Len(RecordedIncludes) : RecordedIncludes[n].target_path \in DOMAIN files
    /\ \E k \in 1..Len(Report.errors) : Report.errors[k].type = "unresolved_include"
    /\ Report.valid = FALSE

----------------------------------------------------------------------------
(* Properties of the index keys, checked under Spec *)

\* the section that holds i in its children list, None for a top-level section
Parent(heap, i) ==
    LET holders == {j \in 1..Len(heap) : i \in Range(heap[j].children)}
    IN IF holders = {} THEN None ELSE Min(holders)

\* the slugs of section i and of its ancestors of level 1 and deeper, dot-joined
RECURSIVE SlugChain(_, _)
SlugChain(heap, i) ==
    LET p == Parent(heap, i)
    IN IF p = None \/ heap[p].level = 0 THEN _title_to_slug(heap[i].title)
       ELSE SlugChain(heap, p) \o <<".">> \o _title_to_slug(heap[i].title)

\* C11: after build_from_documents every section is resolved by get_section
\* under "<file-stem>:<slug chain>", the chain starting at the level-1 section
\* (without the slug of the document title), and the level-0 document root is
\* resolved by the bare file stem.
C11_KeyStartsAtLevelOne ==
    IndexReady =>
        \A i \in 1..Len(get_index.heap) :
            get_section(get_index,
                        IF get_index.heap[i].level = 0 THEN FileStem
                        ELSE FileStem \o <<":">> \o SlugChain(get_index.heap, i)) = i

----------------------------------------------------------------------------
(* Properties of the end-line helpers, checked under Spec *)

\* the outcomes of the read_file the helpers may issue on the file as it is
ReadOutcomes == {disk, FileReadError}

\* C12 as claimed: for every section S, whatever end_line values are populated,
\* section_end_with_descendants(S) >= section_end_line(S), with equality iff S
\* has no children.
C12_EndMonotoneAlways ==
    IndexReady =>
        \A i \in 1..Len(get_index.heap), read \in ReadOutcomes :
            LET with_children == _get_section_end_with_children(get_index.heap, i, read)
                own == _get_section_end_line(get_index.heap[i], read)
            IN /\ with_children >= own
               /\ with_children = own <=> get_index.heap[i].children = <<>>

\* C12 amended: section_end_with_descendants(S) >= section_end_line(S) with
\* equality iff S has no children holds when the parser populated the end lines,
\* and when none is populated and the file cannot be read (line + 10); when none
\* is populated and the file is read, both are the file's line count, so they
\* are equal also for a section with children.
C12_EndMonotonePopulated ==
    IndexReady =>
        \A i \in 1..Len(get_index.heap), read \in ReadOutcomes :
            LET heap == get_index.heap
                with_children == _get_section_end_with_children(heap, i, read)
                own == _get_section_end_line(heap[i], read)
                leaf == Max(Subtree(heap, i))
                populated == heap[i].end_line # None /\ heap[leaf].end_line # None
                unpopulated == heap[i].end_line = None /\ heap[leaf].end_line = None
            IN /\ populated \/ unpopulated
               /\ (populated \/ read = FileReadError) =>
                     /\ with_children >= own
                     /\ with_children = own <=> heap[i].children = <<>>
               /\ (unpopulated /\ read # FileReadError) =>
                     /\ with_children = own
                     /\ own = Len(SplitLines(read))

\* an index with populated end lines holding a three-level chain: the end with
\* descendants of the top section is the end line of the deepest-last leaf
C12_Witness ==
    /\ IndexReady
    /\ \E i \in 1..Len(get_index.heap) :
          LET heap == get_index.heap
              leaf == Max(Subtree(heap, i))
          IN /\ heap[i].end_line # None
             /\ heap[i].children # <<>>
             /\ heap[leaf].level >= heap[i].level + 2
             /\ _get_section_end_with_children(heap, i, disk) = heap[leaf].end_line
             /\ _get_section_end_with_children(heap, i, disk)
                    > _get_section_end_line(heap[i], disk)
             /\ last.op \in {"update_section", "insert_content"} /\ last.status = 200

----------------------------------------------------------------------------
(* Frame of the endpoints on the index, checked under Spec *)

----------------------------------------------------------------------------
(* build_from_documents replaces the index state, checked under Spec *)

\* the document the parser yields for the file as it is
CurrentDocument == parse_file(parser, DocsFile(parser), disk)

\* the answers of the index to the queries get_section (for every path a client
\* asks for), file -> sections, and documents
Answers(index) ==
    [get_section |-> [p \in RequestPaths |->
                         LET i == get_section(index, p)
                         IN IF i = None THEN <<>> ELSE <<index.heap[i]>>],
     file_to_sections |-> index._file_to_sections,
     documents |-> index.documents]

----------------------------------------------------------------------------
(* Unknown paths *)

\* no Section of the index has the composite key the path names
Absent(index, path) ==
    LET key == IF StartsWith(path, <<"/">>) THEN Drop(path, 1) ELSE path
    IN \A i \in 1..Len(index.heap) : CompositeKey(index.heap[i]) # key

\* C15: get_section on a path that no section of the index has returns None, and
\* an update_section or insert_content request for such a path ends in 404
\* PATH_NOT_FOUND, has issued no _file_handler call and leaves the file as it was
C15_UnknownPathNotFound ==
    /\ IndexReady =>
          \A p \in RequestPaths :
              Absent(get_index, NormalizePath(p)) =>
                  get_section(get_index, NormalizePath(p)) = None
    /\ ( /\ last.op \in {"update_section", "insert_content"}
         /\ last.index_before # <<>>
         /\ Absent(last.index_before[1], NormalizePath(last.path)) )
       => /\ last.status = 404
          /\ last.code = "PATH_NOT_FOUND"
          /\ last.section = None
          /\ last.file_ops = <<>>
          /\ disk = last.before

\* a request for a path the index does not hold was answered, while the same
\* index holds other sections
C15_Witness ==
    /\ last.op \in {"update_section", "insert_content"}
    /\ last.index_before # <<>>
    /\ Len(last.index_before[1].heap) > 0
    /\ Absent(last.index_before[1], NormalizePath(last.path))
    /\ last.status = 404

----------------------------------------------------------------------------
(* The nested document, checked under ParseSpec *)

\* AsciidocParser has read every line of NestedDocument
NestedParsed == parser = "AsciidocParser" /\ lines = NestedDocument /\ ParseDone

\* the tree Title{A{A.1}, B}: four sections, Title the only top-level one
NestedTree ==
    /\ Len(section_heap) = 4
    /\ sections = <<1>>
    /\ [i \in 1..4 |-> section_heap[i].title]
          = << <<"T", "i", "t", "l", "e">>, <<"A">>, <<"A", ".", "1">>, <<"B">> >>
    /\ [i \in 1..4 |-> section_heap[i].children] = << <<2, 4>>, <<3>>, <<>>, <<>> >>

\* C16: parsing "= Title", "== A", "=== A.1", "== B" (blank lines between) yields
\* the tree Title{A{A.1}, B} with the paths title, title.a, title.a.a-1, title.b
C16_NestedPaths ==
    NestedParsed =>
        /\ NestedTree
        /\ [i \in 1..4 |-> section_heap[i].path]
              = << <<"t", "i", "t", "l", "e">>,
                   <<"t", "i", "t", "l", "e", ".", "a">>,
                   <<"t", "i", "t", "l", "e", ".", "a", ".", "a", "-", "1">>,
                   <<"t", "i", "t", "l", "e", ".", "b">> >>

----------------------------------------------------------------------------
(* Slugs, checked under ParseSpec *)

\* the characters of [a-z0-9-]
SlugChars ==
    {"a", "b", "c", "d", "e", "f", "g", "h", "i", "j", "k", "l", "m", "n", "o", "p",
     "q", "r", "s", "t", "u", "v", "w", "x", "y", "z",
     "0", "1", "2", "3", "4", "5", "6", "7", "8", "9", "-"}

\* C17: the slug AsciidocParser computes for the title of every heading is
\* lowercase, has no character outside [a-z0-9-], is the last component of the
\* section's path, and a second call on the title returns the same slug
C17_SlugCharset ==
    parser = "AsciidocParser" =>
        \A i \in 1..Len(section_heap) :
            LET slug == _title_to_slug(section_heap[i].title)
            IN /\ EndsWith(section_heap[i].path, slug)
               /\ slug = _title_to_slug(section_heap[i].title)
               /\ \A k \in 1..Len(slug) : Lower(slug[k]) = slug[k] /\ slug[k] \in SlugChars

----------------------------------------------------------------------------
(* The text handed to the file, checked under Spec *)

\* C18: the text update_section or insert_content splices into the file ends
\* with exactly one newline, whatever the request's content ended with
C18_OneTrailingNewline ==
    (last.op \in {"update_section", "insert_content"} /\ last.section # None) =>
        /\ EndsWith(last.new_content, <<NL>>)
        /\ ~EndsWith(last.new_content, <<NL, NL>>)

----------------------------------------------------------------------------
(* insert_content with position "append", checked under Spec *)

AppendOK ==
    last.op = "insert_content" /\ last.position = "append" /\ last.status = 200

\* the text of the first n lines of the file the request found
BeforeText(n) == Join(SliceTo(BeforeLines, n))

\* C19: after an append on section S the file is the old file with the new
\* content spliced in behind S's own last line (so the content is inside S, after
\* S's heading and all of S's own lines, and in front of everything that followed
\* them), and inserted_at is the line at which the new content begins
C19_AppendAfterOwnContent ==
    AppendOK =>
        /\ last.end_line >= last.start_line
        /\ disk = BeforeText(last.end_line) \o last.new_content
                      \o Join(SliceFrom(BeforeLines, last.end_line))
        /\ StartsWith(disk, Join(SliceTo(SplitLinesKeep(disk), last.line - 1))
                                \o last.new_content)

----------------------------------------------------------------------------
(* Blank lines around inserted content, checked under Spec *)

InsertBesideOK ==
    last.op = "insert_content" /\ last.position \in {"before", "after"} /\ last.status = 200

\* the number of the line behind the inserted content in the file as written
LineBehindInsert == last.line + Len(SplitLines(last.new_content))

\* C20: after insert_content with position "before" or "after", when the line
\* behind the inserted content is a section heading, the line in front of that
\* heading is blank
C20_BlankLineBeforeNextHeading ==
    InsertBesideOK =>
        LET ls == SplitLines(disk)
            f == LineBehindInsert
        IN (f <= Len(ls) /\ SECTION_PATTERN(ls[f]).matched) => Strip(ls[f - 1]) = <<>>

----------------------------------------------------------------------------
(* Specification DocSpec: AsciidocStructureParser.parse_file reads a document
   line by line: conditional pre-pass, include expansion, attribute collection *)

MaxDocLines == 4

\* the lines a document may consist of
DocLineTemplates ==
    { <<"=", " ", "T">>,
      <<":", "a", ":">>,
      <<"i", "f", "d", "e", "f", ":", ":", "a", "[", "]">>,
      <<"i", "f", "n", "d", "e", "f", ":", ":", "a", "[", "]">>,
      <<"e", "n", "d", "i", "f", ":", ":", "[", "]">>,
      <<"i", "n", "c", "l", "u", "d", "e", ":", ":", "b", "[", "]">>,
      <<"i", "f", "d", "e", "f", ":", ":", "a", "[", "=", "=", " ", "B", "]">>,
      <<"i", "f", "n", "d", "e", "f", ":", ":", "a", "[", ":", "a", ":", " ", "x", "]">>,
      <<"i", "f", "n", "d", "e", "f", ":", ":", "a", "[",
        "i", "n", "c", "l", "u", "d", "e", ":", ":", "b", "[", "]", "]">>,
      <<"=", "=", " ", "A">> }

\* the parsed document, and the file it may include
DocRoot == <<"r">>

DocFiles == [f \in {<<"b">>} |-> << <<"=", "=", " ", "C">>, <<"c">> >>]

\* fs with the one line of the root document that the resolver is looking at
WithRootLine(fs, root, text) ==
    [f \in DOMAIN fs \cup {root} |-> IF f = root THEN <<text>> ELSE fs[f]]

\* the texts of a merged line stream
Texts(stream) == [k \in 1..Len(stream) |-> stream[k].text]

\* entries of the resolver that stem from the root line get its line number
AtLine(entries, root, num) ==
    [k \in 1..Len(entries) |->
        IF entries[k].file = root THEN [entries[k] EXCEPT !.line = num] ELSE entries[k]]

\* one line of the document: the pre-pass decides whether the line (or the inline
\* content of a single-line conditional) is handed on; what is handed on goes
\* through the include resolver; the attributes are those of the stream so far
DocStep(st, line, num, fs, root, depth) ==
    LET f == FilterStep([condition_stack |-> st.condition_stack, filtered |-> <<>>],
                        line, num, st.attributes)
        r == IF f.filtered = <<>>
             THEN [all_lines |-> <<>>, expansions |-> <<>>]
             ELSE ResolveFrom(WithRootLine(fs, root, f.filtered[1].text),
                              root, 1, <<root>>, depth)
        stream == st.all_lines \o AtLine(r.all_lines, root, num)
    IN [condition_stack |-> f.condition_stack,
        filtered |-> st.filtered \o f.filtered,
        all_lines |-> stream,
        expansions |-> st.expansions \o AtLine(r.expansions, root, num),
        attributes |-> _parse_attributes(Texts(stream))]

DocState ==
    [condition_stack |-> condition_stack, filtered |-> filtered,
     all_lines |-> all_lines, expansions |-> expansions, attributes |-> attributes]

DocInit ==
    /\ parser = "AsciidocStructureParser"
    /\ lines = <<>>
    /\ line_num = 1
    /\ attributes = <<>>
    /\ condition_stack = <<>>
    /\ filtered = <<>>
    /\ files = DocFiles
    /\ max_include_depth = DefaultMaxIncludeDepth
    /\ file_path = DocRoot
    /\ all_lines = <<>>
    /\ expansions = <<>>
    /\ report = <<>>
    /\ section_heap = <<>>
    /\ sections = <<>>
    /\ section_stack = <<>>
    /\ document_title = <<>>
    /\ ApiIdle

\* the parser reads the next line of the document
doc_line ==
    /\ parser = "AsciidocStructureParser"
    /\ file_path = DocRoot
    /\ line_num <= MaxDocLines
    /\ \E line \in DocLineTemplates :
          LET st == DocStep(DocState, line, line_num, files, file_path, max_include_depth)
          IN /\ lines' = Append(lines, line)
             /\ condition_stack' = st.condition_stack
             /\ filtered' = st.filtered
             /\ all_lines' = st.all_lines
             /\ expansions' = st.expansions
             /\ attributes' = st.attributes
    /\ line_num' = line_num + 1
    /\ UNCHANGED <<parser, files, max_include_depth, file_path, report, section_heap,
                   sections, section_stack, document_title, apiVars>>

DocNext == doc_line

DocSpec == DocInit /\ [][DocNext]_vars

----------------------------------------------------------------------------
(* Includes in conditional regions, checked under DocSpec *)

\* the line is an include directive whose target exists
IsIncludeOf(line, fs) ==
    INCLUDE_REGEX(line).matched /\ Strip(INCLUDE_REGEX(line).group1) \in DOMAIN fs

\* the stream entries read from the files other than the root document
FromIncludes(stream) == SelectSeq(stream, LAMBDA e : e.file # DocRoot)

\* the lines of the target of an include directive, as stream entries
TargetLines(line, fs) ==
    LET t == Strip(INCLUDE_REGEX(line).group1)
    IN [k \in 1..Len(fs[t]) |-> [file |-> t, line |-> k, text |-> fs[t][k]]]

\* C21: when the parser reads an include directive inside a conditional region
\* that evaluates false, nothing is resolved or expanded - the line stream that
\* sections and elements are extracted from and the list of expansions stay as
\* they are; inside true regions (or none) the target's lines join the stream
C21_IncludeFollowsVisibility ==
    [][ \A line \in DocLineTemplates :
          (lines' = Append(lines, line) /\ IsIncludeOf(line, files)) =>
              IF FALSE \notin Range(condition_stack)
              THEN /\ all_lines' = all_lines \o TargetLines(line, files)
                   /\ Len(expansions') = Len(expansions) + 1
              ELSE /\ all_lines' = all_lines
                   /\ expansions' = expansions
                   /\ filtered' = filtered ]_vars

\* one document with the same directive twice: expanded inside the true region,
\* not expanded inside the false region nested in it
C21_Witness ==
    /\ Len(lines) = 4
    /\ IsBlockConditional(lines[1]) /\ IsIncludeOf(lines[2], files)
    /\ IsBlockConditional(lines[3]) /\ IsIncludeOf(lines[4], files)
    /\ condition_stack = <<TRUE, FALSE>>
    /\ Len(expansions) = 1 /\ expansions[1].line = 2
    /\ FromIncludes(all_lines) = TargetLines(lines[2], files)
    /\ \E k \in 1..Len(all_lines) :
          SECTION_PATTERN(all_lines[k].text).matched /\ all_lines[k].file = <<"b">>

----------------------------------------------------------------------------
(* Header attributes and conditionals, checked under DocSpec *)

IsTitleLine(line) == SECTION_PATTERN(line).matched /\ SECTION_PATTERN(line).equals = 1

\* the line just read is a block ifdef/ifndef on the attribute that line k defines
LastTestsAttributeOf(k) ==
    /\ Len(lines) > k
    /\ ATTRIBUTE_PATTERN(lines[k]).matched
    /\ IsBlockConditional(lines[Len(lines)])
    /\ ConditionalDirective(lines[Len(lines)]).attr = ATTRIBUTE_PATTERN(lines[k]).name

\* C22: an attribute line on the line behind the "= Title" line defines the
\* attribute, also with an empty value: the region a later block ifdef on it opens
\* evaluates true, the region a later block ifndef opens evaluates false
C22_HeaderAttributeDefined ==
    (Len(lines) >= 3 /\ IsTitleLine(lines[1]) /\ LastTestsAttributeOf(2)) =>
        /\ condition_stack # <<>>
        /\ condition_stack[Len(condition_stack)]
              = ~ConditionalDirective(lines[Len(lines)]).negate

----------------------------------------------------------------------------
(* Document attributes, checked under ParseSpec *)

\* the number of the first heading line of the document (behind the end: none)
FirstHeading ==
    LET hs == {k \in 1..Len(lines) : SECTION_PATTERN(lines[k]).matched}
    IN IF hs = {} THEN Len(lines) + 1 ELSE Min(hs)

\* the attribute lines in front of the first heading that define name
DefiningLines(name) ==
    {k \in 1..(FirstHeading - 1) :
        ATTRIBUTE_PATTERN(lines[k]).matched /\ ATTRIBUTE_PATTERN(lines[k]).name = name}

AttributeNames ==
    {ATTRIBUTE_PATTERN(lines[k]).name : k \in {j \in 1..Len(lines) :
                                                  ATTRIBUTE_PATTERN(lines[j]).matched}}

----------------------------------------------------------------------------
(* Line ranges of indexed sections, checked under Spec *)

----------------------------------------------------------------------------
(* Single-line conditionals, checked under DocSpec *)

IsSingleLineConditional(line) ==
    ConditionalDirective(line).matched /\ ConditionalDirective(line).content # <<>>

\* the condition of directive d against the attributes collected so far
ConditionHolds(d) == (\E k \in 1..Len(attributes) : attributes[k][1] = d.attr) # d.negate

\* C25: a single-line ifdef/ifndef changes nothing but its own line. The stack
\* of open regions stays as it is (no region opened, no endif consumed, so the
\* lines behind it are as visible as before). If the line is visible and its
\* condition true, the parser goes on exactly as if the inline content stood on
\* that line - same line stream, same include expansions, same attributes -
\* otherwise the line leaves no trace.
C25_SingleLineOnlyOwnLine ==
    [][ \A line \in DocLineTemplates :
          (lines' = Append(lines, line) /\ IsSingleLineConditional(line)) =>
              LET d == ConditionalDirective(line)
                  plain == DocStep(DocState, d.content, line_num, files, file_path,
                                   max_include_depth)
              IN /\ condition_stack' = condition_stack
                 /\ IF FALSE \notin Range(condition_stack) /\ ConditionHolds(d)
                    THEN /\ all_lines' = plain.all_lines
                         /\ expansions' = plain.expansions
                         /\ attributes' = plain.attributes
                         /\ Len(all_lines') + Len(expansions') > Len(all_lines) + Len(expansions)
                    ELSE /\ all_lines' = all_lines
                         /\ expansions' = expansions
                         /\ attributes' = attributes ]_vars

\* ifndef::a[:a: x] defined the attribute, so a following ifdef::a[== B] put the
\* heading into the stream, and an ifndef on a third line was dropped; no region
\* is open
C25_Witness ==
    /\ Len(lines) = 3
    /\ \A k \in 1..3 : IsSingleLineConditional(lines[k])
    /\ attributes = << << <<"a">>, <<"x">> >> >>
    /\ condition_stack = <<>>
    /\ all_lines = << [file |-> DocRoot, line |-> 1, text |-> <<":", "a", ":", " ", "x">>],
                      [file |-> DocRoot, line |-> 2, text |-> <<"=", "=", " ", "B">>] >>

----------------------------------------------------------------------------
(* The end line of a section, checked under Spec *)

\* a request that found its section and took the section's own end line
OwnEndLineTaken ==
    /\ last.op \in {"update_section", "insert_content"}
    /\ last.section # None
    /\ last.position # "after"

\* C26: the end line of section S is S's end_line when the parser populated it;
\* otherwise the number of lines of the file as read; and S.line + 10 only when
\* that read failed. The file is read only in the second and third case, and
\* computing the end line writes nothing: the file changes only when the
\* request's own write succeeded.
C26_EndLineFallbacks ==
    OwnEndLineTaken =>
        /\ last.end_line =
              IF TargetSection.end_line # None THEN TargetSection.end_line
              ELSE IF last.read_ok THEN Len(SplitLines(last.before))
              ELSE TargetSection.line + 10
        /\ Cardinality({k \in 1..Len(last.file_ops) : last.file_ops[k] = "read_file"})
              = (IF TargetSection.end_line = None THEN 1 ELSE 0)
                + (IF last.op = "insert_content" THEN 1 ELSE 0)
        /\ \A k \in 1..(Len(last.file_ops) - 1) : last.file_ops[k] = "read_file"
        /\ last.status # 200 => disk = last.before

\* the last resort was taken: no end_line, the read failed, the answer is line + 10
C26_Witness ==
    /\ OwnEndLineTaken
    /\ TargetSection.end_line = None
    /\ ~last.read_ok
    /\ last.end_line = TargetSection.line + 10
    /\ last.end_line > Len(SplitLines(last.before))
    /\ last.file_ops[1] = "read_file"

----------------------------------------------------------------------------
(* Level changes on sections without children, checked under Spec *)

\* an update without preserve_title whose content starts with a heading of
\* another level than the target's, on a section that has no children, found
\* through an index built from the file
LevelChangeOnLeaf ==
    /\ last.op = "update_section"
    /\ last.section # None
    /\ IndexFresh
    /\ ~last.preserve_title
    /\ ContentHeadingLevel(last.content) >= 0
    /\ ContentHeadingLevel(last.content) # TargetSection.level
    /\ TargetSection.children = <<>>

----------------------------------------------------------------------------
(* Initialisation of the index, checked under Spec *)

\* C28: as long as set_index was not called the index is unset and every request
\* is answered 503 INDEX_NOT_READY without any _file_handler call and with the file
\* unchanged; a set_index call makes the index it was given the one get_index
\* returns; from then on no request is answered 503 and every request works on the
\* index of the most recent set_index call
C28_IndexNotReadyUntilSet ==
    [][ /\ (calls' # calls /\ _index = <<>>) =>
              /\ last'.status = 503 /\ last'.code = "INDEX_NOT_READY"
              /\ last'.file_ops = <<>> /\ last'.section = None
              /\ disk' = disk
              /\ _index' = <<>>
        /\ (calls' # calls /\ _index # <<>>) =>
              /\ last'.status # 503
              /\ last'.index_before = _index
              /\ _index' = _index
        /\ calls' = calls =>
              /\ last'.op = "set_index"
              /\ _index' = <<build_from_documents(parse_file(parser, DocsFile(parser), disk))>>
              /\ disk' = disk ]_vars

\* a request was answered 503 before any set_index call
C28_Witness ==
    /\ last.op \in {"update_section", "insert_content"}
    /\ last.status = 503
    /\ last.index_before = <<>>
    /\ _index = <<>>
    /\ last.file_ops = <<>>

----------------------------------------------------------------------------
(* Lines kept by insert_content, checked under Spec *)

\* the elements of short occur in long in the same order (not necessarily adjacent)
RECURSIVE IsSubsequence(_, _)
IsSubsequence(short, long) ==
    IF short = <<>> THEN TRUE
    ELSE IF long = <<>> THEN FALSE
    ELSE IF Head(short) = Head(long) THEN IsSubsequence(Tail(short), Tail(long))
    ELSE IsSubsequence(short, Tail(long))

\* C29: after a successful insert_content (any position, any section) every line
\* of the file the request found is still a whole line of the file, unmodified
\* and in its original order - also when the file's last line has no newline or
\* the fallback end line lies behind the end of the file
C29_InsertKeepsLines ==
    (last.op = "insert_content" /\ last.status = 200) =>
        IsSubsequence(SplitLines(last.before), SplitLines(disk))

----------------------------------------------------------------------------
(* The title line written by preserve_title, checked under Spec *)

\* a successful update with preserve_title whose content carries no heading of
\* its own, on a section found through an index built from the file
TitlePreserved ==
    /\ last.op = "update_section"
    /\ last.status = 200
    /\ last.preserve_title
    /\ IndexFresh
    /\ ~StartsWith(LStrip(last.content), <<"=">>)
    /\ ~StartsWith(LStrip(last.content), <<"#">>)

\* the sections of the file as it is now, parsed again by the parser of its format
Reparsed == parse_file(parser, DocsFile(parser), disk).heap

\* C30: after such an update the file, parsed again, has a section with the
\* title, level and path of the updated section at the line where it started,
\* in AsciiDoc and in Markdown files
C30_TitleLineReparses ==
    TitlePreserved =>
        \E j \in 1..Len(Reparsed) :
            /\ Reparsed[j].line = TargetSection.line
            /\ Reparsed[j].title = TargetSection.title
            /\ Reparsed[j].level = TargetSection.level
            /\ Reparsed[j].path = TargetSection.path

====
